---- MODULE Spec2Model ----
(***************************************************************************)
(* gitfetch: the sandboxed acquisition pipeline (commands/clone.rs), the    *)
(* isolation profile (security.rs), the checksum engine (checksum.rs) and   *)
(* the registry (config.rs), as a state machine of one user running one     *)
(* command after another.                                                   *)
(*                                                                          *)
(* A command is a sequence of steps; a step runs the handler's code from    *)
(* one blocking call (a child process, a prompt read from stdin) to the     *)
(* next, the outcome of the call being the step's input.  File-system calls *)
(* (create_dir_all, remove_dir_all, the config file) are taken to succeed.   *)
(*                                                                          *)
(* Spec is that machine.  EngineSpec runs the checksum engine alone on one  *)
(* directory: fingerprints computed in every enumeration order, files       *)
(* edited in between, and the directory verified against the newest.        *)
(***************************************************************************)
EXTENDS Integers, Sequences, FiniteSets, TLC

(* ------------------------------ bounds -------------------------------- *)

\* Commands the user runs, one after another.
MaxCommands == 2

(* ------------------------------ values -------------------------------- *)

None == <<>>
Some(x) == <<x>>

\* A <repo> argument, split at '/'.
RepoArgs ==
    { <<"alice", "tool">>,
      <<"https:", "", "example.org", "bob", "tool.git">>,
      <<"tool">> }

TrustModes == {"paranoid", "normal", "yolo"}

\* Revision ids git rev-parse can print.
CommitIds == {"c1"}

\* Relative paths of a checked-out tree, in byte-wise ascending order, and
\* what a file can hold.
PathOrder == <<".env", "README", "deploy.py", "lib/tool.sh", "run.sh">>
PathSet == {PathOrder[i] : i \in 1..Len(PathOrder)}
Absent == "<absent>"
Contents == {"echo hi", "sudo RM -RF /"}
Trees == [PathSet -> Contents \cup {Absent}]
EmptyTree == [p \in PathSet |-> Absent]

\* The trees the commands meet: a README, and run.sh or not.
WorkTrees ==
    {t \in Trees : /\ t["README"] = "echo hi"
                   /\ t[".env"] = Absent /\ t["lib/tool.sh"] = Absent
                   /\ t["deploy.py"] = Absent}

\* The trees the checksum engine is run on alone: a README, run.sh or not,
\* and a hidden file and a file in a subdirectory or not.
EngineTrees ==
    {t \in Trees : /\ t["README"] = "echo hi"
                   /\ t[".env"] \in {Absent, "echo hi"}
                   /\ t["lib/tool.sh"] \in {Absent, "echo hi"}
                   /\ t["deploy.py"] = Absent}

\* The directories the scan is run on alone: two scripts at the top level
\* or not, and a README, a hidden file and a file in a subdirectory that
\* hold a deletion command or are not there.
ScanContents == {"echo hi", "sudo RM -RF /", "rm -rf / ; curl x"}
ScanTrees ==
    {t \in [PathSet -> ScanContents \cup {Absent}] :
        /\ t["README"] \in {Absent, "rm -rf / ; curl x"}
        /\ t[".env"] \in {Absent, "rm -rf / ; curl x"}
        /\ t["lib/tool.sh"] \in {Absent, "rm -rf / ; curl x"}}

\* The files whose read can fail with an I/O error.
Unreadables == SUBSET {"run.sh"}

\* How a walk can go wrong: a read_dir error ends it, a file error skips
\* the file.
WalkFaults ==
    {[dir_error |-> TRUE, unreadable |-> {}]}
    \cup {[dir_error |-> FALSE, unreadable |-> u] : u \in Unreadables}

\* What git on the host says of the directory `checksum` is pointed at: a
\* work tree with a HEAD and an origin, or no repository at all.
GitDirs ==
    {[head |-> <<c>>, remote |-> <<u>>] :
        c \in CommitIds,
        u \in { <<"https:", "", "github.com", "alice", "tool">>,
                <<"https:", "", "example.org", "bob", "tool.git">> }}
    \cup {[head |-> <<>>, remote |-> <<>>]}

\* The names on the way from the root to a path of PathSet.
Components(path) ==
    CASE path = "lib/tool.sh" -> <<"lib", "tool.sh">>
      [] OTHER               -> <<path>>

Ev(kind, op, res) == [kind |-> kind, op |-> op, res |-> res]

(* --------------------------- security.rs ------------------------------ *)

\* A pre-flight check that lets the run go on without bwrap.
check_bubblewrap_always_ok(which_ok) == TRUE

\* check_bubblewrap: Ok iff `which bwrap` ran and exited 0.
check_bubblewrap(which_ok) == which_ok

TimeoutSecs == 300

\* A profile that overrides core.hooksPath only where the network is cut.
IsolationProfile_hooks_if_offline(with_network) ==
    [ timeout   |-> 300,
      ro_bind   |-> {"/usr", "/lib", "/lib64", "/bin", "/sbin", "/etc"},
      dev_bind  |-> {"/dev/null", "/dev/zero", "/dev/urandom"},
      tmpfs     |-> {"/tmp"},
      chdir     |-> "/workspace",
      unshare   |-> {"pid", "uts", "cgroup"}
                      \cup (IF ~with_network THEN {"net"} ELSE {}),
      die_with_parent |-> TRUE,
      cap_drop  |-> "ALL",
      clearenv  |-> TRUE,
      setenv    |-> { <<"PATH", "/usr/bin:/bin">>,
                      <<"HOME", "/workspace">> }
                    \cup (IF ~with_network
                          THEN { <<"GIT_CONFIG_COUNT", "1">>,
                                 <<"GIT_CONFIG_KEY_0", "core.hooksPath">>,
                                 <<"GIT_CONFIG_VALUE_0", "/dev/null">> }
                          ELSE {}) ]

\* The bwrap command line run_sandboxed_git builds around `git <args>`.
IsolationProfile(with_network) ==
    [ timeout   |-> TimeoutSecs,
      ro_bind   |-> {"/usr", "/lib", "/lib64", "/bin", "/sbin", "/etc"},
      dev_bind  |-> {"/dev/null", "/dev/zero", "/dev/urandom"},
      tmpfs     |-> {"/tmp"},
      chdir     |-> "/workspace",
      unshare   |-> {"pid", "uts", "cgroup"}
                      \cup (IF ~with_network THEN {"net"} ELSE {}),
      die_with_parent |-> TRUE,
      cap_drop  |-> "ALL",
      clearenv  |-> TRUE,
      setenv    |-> { <<"PATH", "/usr/bin:/bin">>,
                      <<"HOME", "/workspace">>,
                      <<"GIT_CONFIG_COUNT", "1">>,
                      <<"GIT_CONFIG_KEY_0", "core.hooksPath">>,
                      <<"GIT_CONFIG_VALUE_0", "/dev/null">> } ]

\* What `timeout 300 bwrap ... git ...` can come back with: exit 0, a
\* non-zero exit of git, exit 124 of timeout, or a failure to spawn it.
SandboxStatuses == {"exit0", "nonzero", "timeout", "spawn_error"}

\* A result that is Ok whatever the status.
SandboxOk_ignores_status(status) == TRUE

\* run_sandboxed_git's Result: Ok(()) iff the status is success.
SandboxOk(status) == status = "exit0"

\* One run_sandboxed_git call, as the executor sees it.
Invocation(dir, git_args, with_network, status) ==
    [ dir          |-> dir,
      git_args     |-> git_args,
      with_network |-> with_network,
      profile      |-> IsolationProfile(with_network),
      status       |-> status ]

\* prompt_user: true iff the trimmed, lower-cased line is "yes" or "y".
Answers == {"yes", "Y", "no", ""}
Lowered(s) == CASE s = "Y" -> "y" [] OTHER -> s
prompt_user(answer) == Lowered(answer) \in {"yes", "y"}

\* scan_for_suspicious_patterns: the pattern table, in its order.
Patterns ==
    << <<"eval(", "eval() usage">>,
       <<"exec(", "exec() usage">>,
       <<"subprocess", "subprocess usage">>,
       <<"os.system", "os.system usage">>,
       <<"shell=True", "shell=True">>,
       <<"/etc/passwd", "password file access">>,
       <<"rm -rf", "recursive deletion">>,
       <<"curl", "network request">>,
       <<"base64.b64decode", "base64 decode">>,
       <<"authorized_keys", "SSH keys access">>,
       <<"bitcoin", "crypto-related">> >>

Extensions == {"py", "js", "sh", "bash", "rb", "pl", "php", "rs"}

\* Path::extension of the names in PathSet.
ExtensionOf(name) ==
    CASE name \in {"run.sh", "tool.sh", "lib/tool.sh"} -> Some("sh")
      [] name = "deploy.py" -> Some("py")
      [] OTHER -> None

\* name.starts_with('.')
StartsWithDot(name) == name \in {".git", ".env"}

\* str::to_lowercase of the texts in Contents and Patterns.
ToLowercase(s) ==
    CASE s = "sudo RM -RF /" -> "sudo rm -rf /"
      [] s = "shell=True"    -> "shell=true"
      [] OTHER               -> s

\* str::contains of the lower-cased texts.
StrContains(text, pat) ==
    <<text, pat>> \in { <<"sudo rm -rf /", "rm -rf">>,
                        <<"rm -rf / ; curl x", "rm -rf">>,
                        <<"rm -rf / ; curl x", "curl">> }

\* The first pattern of the table found in the content, or 0.
FirstPattern(content) ==
    LET hits == {i \in 1..Len(Patterns) :
                    StrContains(ToLowercase(content),
                                ToLowercase(Patterns[i][1]))}
    IN IF hits = {} THEN 0
       ELSE CHOOSE i \in hits : \A j \in hits : i <= j

\* Path::file_name
FileName(path) == Components(path)[Len(Components(path))]

\* The patterns of the table found in the content, in the table's order.
Matches(content) ==
    {i \in 1..Len(Patterns) :
        StrContains(ToLowercase(content), ToLowercase(Patterns[i][1]))}

\* A loop over the table that pushes at every match and never breaks.
FileWarnings_no_break(name, content) ==
    [k \in 1..Cardinality(Matches(content)) |->
        <<name,
          Patterns[CHOOSE i \in Matches(content) :
                      Cardinality({j \in Matches(content) : j < i}) = k - 1][2]>>]

\* The loop over the table for one file: format!("{}: {}", filename, desc)
\* is pushed for the first pattern found, then break.
FileWarnings(name, content) ==
    IF FirstPattern(content) = 0 THEN <<>>
    ELSE << <<name, Patterns[FirstPattern(content)][2]>> >>

\* Whether the loop over read_dir(path) reads the entry: a file at the top
\* level, not hidden, with a listed extension, that reads as text.
Scanned(tree, unreadable, name) ==
    /\ tree[name] # Absent
    /\ Len(Components(name)) = 1
    /\ ~(StartsWithDot(name) \/ name = "node_modules")
    /\ ExtensionOf(name) # None
    /\ ExtensionOf(name)[1] \in Extensions
    /\ name \notin unreadable

\* The loop over read_dir(path), in the order the file system yields the
\* entries.
RECURSIVE ScanFrom(_, _, _, _)
ScanFrom(tree, unreadable, order, i) ==
    IF i > Len(order) THEN <<>>
    ELSE (IF Scanned(tree, unreadable, order[i])
          THEN FileWarnings(FileName(order[i]), tree[order[i]])
          ELSE <<>>)
         \o ScanFrom(tree, unreadable, order, i + 1)

\* The descriptions of the table in byte-wise ascending order.
DescOrder ==
    << "SSH keys access", "base64 decode", "crypto-related", "eval() usage",
       "exec() usage", "network request", "os.system usage",
       "password file access", "recursive deletion", "shell=True",
       "subprocess usage" >>
DescRank(d) == CHOOSE i \in 1..Len(DescOrder) : DescOrder[i] = d
NameRank(n) == CHOOSE i \in 1..Len(PathOrder) : PathOrder[i] = n

\* String's Ord on two warnings "name: desc" (no name of PathSet begins
\* another, so the names decide unless they are equal).
WarningLess(a, b) ==
    \/ NameRank(a[1]) < NameRank(b[1])
    \/ a[1] = b[1] /\ DescRank(a[2]) < DescRank(b[2])

\* A scan that returns the warnings as the loop pushed them.
warnings_sort_noop(ws) == ws

\* warnings.sort()
RECURSIVE InsertWarning(_, _)
InsertWarning(sorted, w) ==
    IF sorted = <<>> THEN <<w>>
    ELSE IF WarningLess(w, Head(sorted)) THEN <<w>> \o sorted
    ELSE <<Head(sorted)>> \o InsertWarning(Tail(sorted), w)
RECURSIVE SortedUpTo(_, _)
SortedUpTo(ws, n) ==
    IF n = 0 THEN <<>> ELSE InsertWarning(SortedUpTo(ws, n - 1), ws[n])
warnings_sort(ws) == SortedUpTo(ws, Len(ws))

\* warnings.dedup(): of consecutive equal elements the first is kept.
warnings_dedup(ws) ==
    LET keep == {i \in 1..Len(ws) : i = 1 \/ ws[i] # ws[i - 1]}
    IN [k \in 1..Cardinality(keep) |->
           ws[CHOOSE i \in keep : Cardinality({j \in keep : j < i}) = k - 1]]

\* The scan of a directory that exists: the loop, then sort and dedup.
ScanDir(tree, unreadable, order) ==
    warnings_dedup(warnings_sort(ScanFrom(tree, unreadable, order, 1)))

\* scan_for_suspicious_patterns(repo_path); the warnings do not depend on
\* the order of read_dir, which is taken as PathOrder here.
scan_for_suspicious_patterns(dir, unreadable) ==
    IF dir.state # "checkedout" THEN <<>>
    ELSE ScanDir(dir.tree, unreadable, PathOrder)

(* ---------------------------- checksum.rs ----------------------------- *)

\* format!("{:x}", Sha256(bytes)): taken to be collision-free.
Sha256Hex(bytes) == <<"sha256", bytes>>

calculate_file_checksum(content) == Sha256Hex(content)

\* Names the walk does not enter.
WalkSkips(name) ==
    StartsWithDot(name) \/ name = "node_modules" \/ name = "target"

\* Whether the walk passes over the path: it or a directory above it has a
\* skipped name.
WalkSkipsPath(path) ==
    \E i \in 1..Len(Components(path)) : WalkSkips(Components(path)[i])

\* The orders in which read_dir can yield the entries, and a HashMap its
\* keys.
EntryOrders ==
    { PathOrder,
      [i \in 1..Len(PathOrder) |-> PathOrder[Len(PathOrder) + 1 - i]] }

\* HashMap::new and HashMap::insert
EmptyMap == [p \in {} |-> <<>>]
MapInsert(m, k, v) == [x \in DOMAIN m \cup {k} |-> IF x = k THEN v ELSE m[x]]

\* The loop over read_dir(current_path), entry by entry in the order the
\* file system yields them, when no read_dir fails: skipped names and
\* files that cannot be read are passed over.
RECURSIVE WalkFrom(_, _, _, _, _)
WalkFrom(tree, unreadable, order, i, checksums) ==
    IF i > Len(order) THEN checksums
    ELSE WalkFrom(tree, unreadable, order, i + 1,
            IF /\ tree[order[i]] # Absent
               /\ ~WalkSkipsPath(order[i])
               /\ order[i] \notin unreadable
            THEN MapInsert(checksums, order[i],
                           calculate_file_checksum(tree[order[i]]))
            ELSE checksums)

\* A walk that hashes every file it lists, readable or not.
walk_and_checksum_reads_all(tree, unreadable, order) ==
    WalkFrom(tree, {}, order, 1, EmptyMap)

walk_and_checksum(tree, unreadable, order) ==
    WalkFrom(tree, unreadable, order, 1, EmptyMap)

\* file_checksums.iter().collect(): the entries in the map's own order.
RECURSIVE IterCollect(_, _, _)
IterCollect(files, iter_order, i) ==
    IF i > Len(iter_order) THEN <<>>
    ELSE (IF iter_order[i] \in DOMAIN files
          THEN << <<iter_order[i], files[iter_order[i]]>> >> ELSE <<>>)
         \o IterCollect(files, iter_order, i + 1)

\* Where a path stands in the byte-wise order of the paths.
PathRank(p) == CHOOSE i \in 1..Len(PathOrder) : PathOrder[i] = p

RECURSIVE InsertByKey(_, _)
InsertByKey(sorted, e) ==
    IF sorted = <<>> THEN <<e>>
    ELSE IF PathRank(e[1]) < PathRank(Head(sorted)[1]) THEN <<e>> \o sorted
    ELSE <<Head(sorted)>> \o InsertByKey(Tail(sorted), e)

\* A sort that leaves the entries as the map yielded them.
sort_by_key_noop(entries) == entries

\* sorted_files.sort_by_key(|(path, _)| *path)
RECURSIVE sort_by_key(_)
sort_by_key(entries) ==
    IF entries = <<>> THEN <<>>
    ELSE InsertByKey(sort_by_key(Tail(entries)), Head(entries))

\* The bytes the total hasher is fed: path, checksum, path, checksum, ...
RECURSIVE HasherInput(_)
HasherInput(entries) ==
    IF entries = <<>> THEN <<>>
    ELSE <<Head(entries)[1], Head(entries)[2]>> \o HasherInput(Tail(entries))

\* The aggregate over the entries sorted by path.
TotalHash(files, iter_order) ==
    Sha256Hex(HasherInput(sort_by_key(IterCollect(files, iter_order, 1))))

\* calculate_repo_checksums, Ok branch.
calculate_repo_checksums(tree, unreadable, order, iter_order, head, remote) ==
    LET files == walk_and_checksum(tree, unreadable, order) IN
    [ repo_url       |-> IF remote = None THEN <<"unknown">> ELSE remote[1],
      commit_hash    |-> IF head = None THEN "unknown" ELSE head[1],
      file_checksums |-> files,
      total_hash     |-> TotalHash(files, iter_order) ]

\* A comparison turned around: an equal checksum counts as an issue.
verify_repo_checksums_swapped(current_files, expected) ==
    LET exp == expected.file_checksums
        same == {p \in DOMAIN exp :
                    p \in DOMAIN current_files /\ current_files[p] # exp[p]}
        changed == {p \in DOMAIN exp :
                    p \in DOMAIN current_files /\ current_files[p] = exp[p]}
        missing == {p \in DOMAIN exp : p \notin DOMAIN current_files}
        unexpected == {p \in DOMAIN current_files : p \notin DOMAIN exp}
    IN [ verified  |-> Cardinality(same),
         issues    |-> Cardinality(changed) + Cardinality(missing)
                        + Cardinality(unexpected),
         all_match |-> changed = {} /\ missing = {} /\ unexpected = {},
         changed   |-> Cardinality(changed),
         missing   |-> Cardinality(missing),
         unexpected |-> Cardinality(unexpected) ]

\* A comparison of the paths alone: a file that is there counts as verified.
verify_repo_checksums_by_presence(current_files, expected) ==
    LET exp == expected.file_checksums
        same == {p \in DOMAIN exp : p \in DOMAIN current_files}
        missing == {p \in DOMAIN exp : p \notin DOMAIN current_files}
        unexpected == {p \in DOMAIN current_files : p \notin DOMAIN exp}
    IN [ verified  |-> Cardinality(same),
         issues    |-> Cardinality(missing) + Cardinality(unexpected),
         all_match |-> missing = {} /\ unexpected = {},
         changed   |-> 0,
         missing   |-> Cardinality(missing),
         unexpected |-> Cardinality(unexpected) ]

\* A comparison without the loop over the current files.
verify_repo_checksums_expected_only(current_files, expected) ==
    LET exp == expected.file_checksums
        same == {p \in DOMAIN exp :
                    p \in DOMAIN current_files /\ current_files[p] = exp[p]}
        changed == {p \in DOMAIN exp :
                    p \in DOMAIN current_files /\ current_files[p] # exp[p]}
        missing == {p \in DOMAIN exp : p \notin DOMAIN current_files}
    IN [ verified  |-> Cardinality(same),
         issues    |-> Cardinality(changed) + Cardinality(missing),
         all_match |-> changed = {} /\ missing = {},
         changed   |-> Cardinality(changed),
         missing   |-> Cardinality(missing),
         unexpected |-> 0 ]

\* A comparison that looks only at the files that are there.
verify_repo_checksums_present_only(current_files, expected) ==
    LET exp == expected.file_checksums
        same == {p \in DOMAIN exp :
                    p \in DOMAIN current_files /\ current_files[p] = exp[p]}
        changed == {p \in DOMAIN exp :
                    p \in DOMAIN current_files /\ current_files[p] # exp[p]}
        unexpected == {p \in DOMAIN current_files : p \notin DOMAIN exp}
    IN [ verified  |-> Cardinality(same),
         issues    |-> Cardinality(changed) + Cardinality(unexpected),
         all_match |-> changed = {} /\ unexpected = {},
         changed   |-> Cardinality(changed),
         missing   |-> 0,
         unexpected |-> Cardinality(unexpected) ]

\* verify_repo_checksums, Ok branch: the counts and the verdict, and how
\* many files took each of the three branches that count an issue.
verify_repo_checksums(current_files, expected) ==
    LET exp == expected.file_checksums
        same == {p \in DOMAIN exp :
                    p \in DOMAIN current_files /\ current_files[p] = exp[p]}
        changed == {p \in DOMAIN exp :
                    p \in DOMAIN current_files /\ current_files[p] # exp[p]}
        missing == {p \in DOMAIN exp : p \notin DOMAIN current_files}
        unexpected == {p \in DOMAIN current_files : p \notin DOMAIN exp}
    IN [ verified  |-> Cardinality(same),
         issues    |-> Cardinality(changed) + Cardinality(missing)
                        + Cardinality(unexpected),
         all_match |-> changed = {} /\ missing = {} /\ unexpected = {},
         changed   |-> Cardinality(changed),
         missing   |-> Cardinality(missing),
         unexpected |-> Cardinality(unexpected) ]

\* The revision ids git can print of the directory the engine is run on.
EngineCommits == {"c1", "c2"}

\* The "Commit hash mismatch!" warning: the current revision id could be
\* read and is not the fingerprint's.
CommitWarning(current_commit, expected) ==
    current_commit # <<>> /\ current_commit[1] # expected.commit_hash

\* A verification that revision drift fails.
VerifyReport_drift_fails(current_commit, current_files, expected) ==
    LET r == verify_repo_checksums(current_files, expected) IN
    [ verified  |-> r.verified,
      issues    |-> r.issues,
      all_match |-> r.all_match /\ ~CommitWarning(current_commit, expected),
      changed   |-> r.changed,
      missing   |-> r.missing,
      unexpected |-> r.unexpected,
      current_commit |-> current_commit,
      commit_warning |-> CommitWarning(current_commit, expected) ]

\* verify_repo_checksums, Ok branch, with what it prints about the
\* revision id before it walks.
VerifyReport(current_commit, current_files, expected) ==
    LET r == verify_repo_checksums(current_files, expected) IN
    [ verified  |-> r.verified,
      issues    |-> r.issues,
      all_match |-> r.all_match,
      changed   |-> r.changed,
      missing   |-> r.missing,
      unexpected |-> r.unexpected,
      current_commit |-> current_commit,
      commit_warning |-> CommitWarning(current_commit, expected) ]

(* ------------------------- commands/clone.rs -------------------------- *)

\* repo.starts_with("http://") || repo.starts_with("https://")
IsHttpUrl(repo) ==
    Len(repo) >= 2 /\ repo[1] \in {"http:", "https:"} /\ repo[2] = ""

\* repo.contains('/')
ContainsSlash(repo) == Len(repo) > 1

ValidRepo(repo) == IsHttpUrl(repo) \/ ContainsSlash(repo)

ResolveUrl(repo) ==
    IF IsHttpUrl(repo) THEN repo
    ELSE <<"https:", "", "github.com">> \o repo

\* trim_end_matches(".git") of the names in RepoArgs.
TrimEndGit(s) == CASE s = "tool.git" -> "tool" [] OTHER -> s

\* url.trim_end_matches(".git").split('/').last()
RepoName(url) == TrimEndGit(url[Len(url)])

Urls == {ResolveUrl(r) : r \in {a \in RepoArgs : ValidRepo(a)}}
Names == {RepoName(u) : u \in Urls}
UnknownUrl == <<"unknown">>

WorkspacePath(name) == <<"~", ".gitfetch", "workspace", name>>
RepoInWorkspace(name) == WorkspacePath(name) \o <<name>>
CurrentDirTarget(name) == <<".", name>>

\* A precondition that never fires.
RequiredVerifyMissing_never(verify_checksum, has_checksum) == FALSE

\* verify_checksum && !has_checksum
RequiredVerifyMissing(verify_checksum, has_checksum) ==
    verify_checksum /\ ~has_checksum

\* A prompt decision that spares no mode when no fingerprint is known.
should_prompt_unless_known(trust_mode, has_checksum) == ~has_checksum

\* should_prompt: paranoid always, yolo never, anything else unless a
\* fingerprint is known.
should_prompt(trust_mode, has_checksum) ==
    CASE trust_mode = "paranoid" -> TRUE
      [] trust_mode = "yolo"     -> FALSE
      [] OTHER                   -> ~has_checksum

\* A checkout stage left on the network.
Stage2Network_on == TRUE

\* The with_network argument of the two stages.
Stage1Network == TRUE
Stage2Network == FALSE

\* A workspace directory: absent, or present holding nothing, a clone made
\* with --no-checkout, or a checked-out tree.
NoDir == [state |-> "absent", tree |-> EmptyTree]
EmptyDir == [state |-> "empty", tree |-> EmptyTree]
ClonedDir == [state |-> "cloned", tree |-> EmptyTree]
CheckedOutDir(t) == [state |-> "checkedout", tree |-> t]

\* A cleanup that removes nothing.
RemoveWorkspace_noop(ws, name) == ws

\* A cleanup that empties the workspace directory and leaves it there.
RemoveWorkspace_leaves_empty(ws, name) == [ws EXCEPT ![name] = EmptyDir]

\* fs::remove_dir_all(&workspace)
RemoveWorkspace(ws, name) == [ws EXCEPT ![name] = NoDir]

\* A start that creates the workspace directory and removes none.
FreshWorkspace_keeps_old(ws, name) ==
    IF ws[name].state = "absent" THEN [ws EXCEPT ![name] = EmptyDir] ELSE ws

\* remove_dir_all(workspace) if it exists, then create_dir_all(workspace).
FreshWorkspace(ws, name) == [ws EXCEPT ![name] = EmptyDir]

\* A record that always names the working-directory target.
FinalPath_always_target(attempted, status, name) == CurrentDirTarget(name)

\* final_path: the working-directory target if cp was run and succeeded,
\* the repository in the workspace otherwise.
FinalPath(attempted, status, name) ==
    IF attempted /\ status = "exit0" THEN CurrentDirTarget(name)
    ELSE RepoInWorkspace(name)

(* ------------------------------ state --------------------------------- *)

VARIABLES
    installed_repos,    \* config.json: Vec<InstalledRepo>
    checksum_registry,  \* config.json: HashMap<String, RepoChecksum>
    workspace,          \* ~/.gitfetch/workspace/<name>
    cwd,                \* ./<name> in the user's working directory
    nCommands,          \* commands run so far
    disk0,              \* the disk as the running command found it
    cmd,                \* the command running, or run last
    pc,                 \* where it stands
    exit_code,          \* -1 while running
    outcome,            \* which exit it took
    args,               \* its arguments
    bwrap_present,      \* whether `which bwrap` succeeds
    repo_url, repo_name, has_checksum, config, commit_hash, verified,
    warnings, final_path,               \* clone_repo's locals
    trace,              \* what the command did, in order
    invocations,        \* its run_sandboxed_git calls, in order
    dir,                \* a directory the checksum engine is pointed at
    computed,           \* the newest fingerprint, and the one before it
                        \* if it was of the same files
    last_report,        \* what verifying it against the newest said
    scans               \* the newest scans of it, newest first

disk == <<installed_repos, checksum_registry, workspace, cwd>>
locals == <<repo_url, repo_name, has_checksum, config, commit_hash,
            verified, warnings, final_path>>
engine == <<dir, computed, last_report, scans>>
vars == <<installed_repos, checksum_registry, workspace, cwd, nCommands,
          disk0, cmd, pc, exit_code, outcome, args, bwrap_present, repo_url,
          repo_name, has_checksum, config, commit_hash, verified, warnings,
          final_path, trace, invocations, dir, computed, last_report, scans>>

NoArgs == [repo |-> <<>>, verify_checksum |-> FALSE, trust_mode |-> ""]
NoChecksums == [u \in {} |-> {}]
EmptyConfig == [installed_repos |-> <<>>, checksum_registry |-> NoChecksums]

\* GitFetchConfig::load
LoadConfig ==
    [installed_repos |-> installed_repos,
     checksum_registry |-> checksum_registry]

\* No command has run yet.
NoCommandYet ==
    /\ installed_repos = <<>>
    /\ checksum_registry = NoChecksums
    /\ workspace = [n \in Names |-> NoDir]
    /\ cwd = [n \in Names |-> "absent"]
    /\ nCommands = 0
    /\ disk0 = [installed_repos |-> <<>>, checksum_registry |-> NoChecksums,
                workspace |-> [n \in Names |-> NoDir],
                cwd |-> [n \in Names |-> "absent"]]
    /\ cmd = "none"
    /\ pc = "idle"
    /\ exit_code = -1
    /\ outcome = ""
    /\ args = NoArgs
    /\ bwrap_present = FALSE
    /\ repo_url = <<>>
    /\ repo_name = ""
    /\ has_checksum = FALSE
    /\ config = EmptyConfig
    /\ commit_hash = None
    /\ verified = FALSE
    /\ warnings = <<>>
    /\ final_path = <<>>
    /\ trace = <<>>
    /\ invocations = <<>>

\* The engine is pointed at nothing.
NoDirectory ==
    /\ dir = [tree |-> EmptyTree, unreadable |-> {}]
    /\ computed = <<>>
    /\ last_report = None
    /\ scans = <<>>

Init == NoCommandYet /\ NoDirectory

\* An exit that reports every end as a failure.
Exit_as_failure(code, why) ==
    /\ pc' = "exited"
    /\ exit_code' = 1
    /\ outcome' = why

\* std::process::exit(code), or the handler returning (code 0).
Exit(code, why) ==
    /\ pc' = "exited"
    /\ exit_code' = code
    /\ outcome' = why

\* The shell is ready for the next command.
Ready == pc \in {"idle", "exited"} /\ nCommands < MaxCommands

\* A command starts: it is counted, and the disk it finds is remembered.
Begin ==
    /\ Ready
    /\ nCommands' = nCommands + 1
    /\ disk0' = [installed_repos |-> installed_repos,
                 checksum_registry |-> checksum_registry,
                 workspace |-> workspace, cwd |-> cwd]

\* config.get_checksum(url).is_some()
HasChecksum(registry, url) == url \in DOMAIN registry

\* clone_repo up to its first prompt or stage: pre-flight, URL, workspace,
\* the --verify-checksum precondition, the trust-mode match.
clone_start(repo, verify_checksum, trust_mode, which_ok) ==
    /\ Begin
    /\ cmd' = "clone"
    /\ UNCHANGED engine
    /\ args' = [repo |-> repo, verify_checksum |-> verify_checksum,
                trust_mode |-> trust_mode]
    /\ bwrap_present' = which_ok
    /\ invocations' = <<>>
    /\ commit_hash' = None
    /\ verified' = FALSE
    /\ warnings' = <<>>
    /\ final_path' = <<>>
    /\ UNCHANGED <<installed_repos, checksum_registry, cwd>>
    /\ LET tr0 == <<Ev("host", "which bwrap",
                       IF which_ok THEN "ok" ELSE "fail")>>
       IN
       IF ~check_bubblewrap(which_ok) THEN
            /\ Exit(1, "IsolationUnavailable")
            /\ trace' = tr0
            /\ repo_url' = <<>> /\ repo_name' = ""
            /\ has_checksum' = FALSE /\ config' = EmptyConfig
            /\ UNCHANGED workspace
       ELSE IF ~ValidRepo(repo) THEN
            /\ Exit(1, "InvalidFormat")
            /\ trace' = tr0
            /\ repo_url' = <<>> /\ repo_name' = ""
            /\ has_checksum' = FALSE /\ config' = EmptyConfig
            /\ UNCHANGED workspace
       ELSE LET url == ResolveUrl(repo)
                name == RepoName(url)
                tr1 == tr0
                       \o (IF workspace[name].state # "absent"
                           THEN <<Ev("fs", "remove_dir_all", name)>>
                           ELSE <<>>)
                       \o <<Ev("fs", "create_dir_all", name)>>
                has == HasChecksum(checksum_registry, url)
            IN
            /\ repo_url' = url
            /\ repo_name' = name
            /\ workspace' = FreshWorkspace(workspace, name)
            /\ config' = LoadConfig
            /\ has_checksum' = has
            /\ trace' = tr1
            /\ IF RequiredVerifyMissing(verify_checksum, has) THEN
                    Exit(1, "NoFingerprintOnRequiredVerify")
               ELSE /\ pc' = IF should_prompt(trust_mode, has)
                             THEN "prompt_fetch" ELSE "stage1"
                    /\ exit_code' = -1
                    /\ outcome' = ""

\* The prompt gate of the materialization step, for a run that got there.
CopyGate(trust_mode) ==
    IF trust_mode # "paranoid" THEN "copy" ELSE "prompt_copy"

\* A gate that lets findings through unasked.
ScanGate_no_prompt(trust_mode, found) == CopyGate(trust_mode)

\* The prompt gate after the scan.
ScanGate(trust_mode, found) ==
    IF found # <<>> /\ trust_mode = "paranoid" THEN "prompt_scan"
    ELSE CopyGate(trust_mode)

\* A prompt, as the trace keeps it.
Prompted(point, answer) ==
    Ev("prompt", point, IF prompt_user(answer) THEN "yes" ELSE "no")

\* The pre-fetch prompt.
prompt_fetch(answer) ==
    /\ pc = "prompt_fetch"
    /\ UNCHANGED engine
    /\ trace' = Append(trace, Prompted("fetch", answer))
    /\ IF ~prompt_user(answer) THEN Exit(0, "Cancelled")
       ELSE pc' = "stage1" /\ UNCHANGED <<exit_code, outcome>>
    /\ UNCHANGED <<disk, nCommands, disk0, cmd, args, bwrap_present, locals,
                   invocations>>

\* Stage 1: git clone --no-checkout in the sandbox, with network.
stage1(status) ==
    /\ pc = "stage1"
    /\ UNCHANGED engine
    /\ invocations' = Append(invocations,
            Invocation(WorkspacePath(repo_name),
                       <<"clone", "--no-checkout", repo_url>>,
                       Stage1Network, status))
    /\ IF ~SandboxOk(status) THEN
            /\ workspace' = RemoveWorkspace(workspace, repo_name)
            /\ trace' = trace \o <<Ev("sandbox", "clone", status),
                                   Ev("fs", "remove_dir_all", repo_name)>>
            /\ Exit(1, "FetchFailed")
       ELSE /\ workspace' = [workspace EXCEPT ![repo_name] = ClonedDir]
            /\ trace' = Append(trace, Ev("sandbox", "clone", status))
            /\ pc' = "stage2"
            /\ UNCHANGED <<exit_code, outcome>>
    /\ UNCHANGED <<installed_repos, checksum_registry, cwd, nCommands, disk0, cmd,
                   args, bwrap_present, locals>>

\* Stage 2: git checkout --force HEAD in the sandbox, without network.
stage2(status, tree) ==
    /\ pc = "stage2"
    /\ UNCHANGED engine
    /\ invocations' = Append(invocations,
            Invocation(RepoInWorkspace(repo_name),
                       <<"checkout", "--force", "HEAD">>,
                       Stage2Network, status))
    /\ IF ~SandboxOk(status) THEN
            /\ workspace' = RemoveWorkspace(workspace, repo_name)
            /\ trace' = trace \o <<Ev("sandbox", "checkout", status),
                                   Ev("fs", "remove_dir_all", repo_name)>>
            /\ Exit(1, "CheckoutFailed")
       ELSE /\ workspace' = [workspace EXCEPT
                                ![repo_name] = CheckedOutDir(tree)]
            /\ trace' = Append(trace, Ev("sandbox", "checkout", status))
            /\ pc' = "post_checkout"
            /\ UNCHANGED <<exit_code, outcome>>
    /\ UNCHANGED <<installed_repos, checksum_registry, cwd, nCommands, disk0, cmd,
                   args, bwrap_present, locals>>

\* The scan and the gate after it.
ScanStep(tr, scan_unreadable) ==
    LET found == scan_for_suspicious_patterns(workspace[repo_name],
                                              scan_unreadable)
    IN /\ warnings' = found
       /\ trace' = Append(tr, Ev("scan", "scan_for_suspicious_patterns",
                                 IF found = <<>> THEN "clean"
                                 ELSE "findings"))
       /\ pc' = ScanGate(args.trust_mode, found)

\* A match arm that takes every Ok for Ok(true).
VerifyOutcome_lenient(dir_error, report) ==
    IF dir_error THEN "error" ELSE "match"

\* How the match on verify_repo_checksums' result reads in the trace.
VerifyOutcome(dir_error, report) ==
    IF dir_error THEN "error"
    ELSE IF report.all_match THEN "match" ELSE "mismatch"

\* After the checkout: reload the config, read the revision id with git on
\* the host, verify against the known fingerprint if there is one, scan.
post_checkout(hashres, io, scan_unreadable) ==
    /\ pc = "post_checkout"
    /\ UNCHANGED engine
    /\ config' = LoadConfig
    /\ commit_hash' = hashres
    /\ LET tr0 == Append(trace, Ev("host", "git rev-parse",
                                   IF hashres = None THEN "fail" ELSE "ok"))
       IN
       IF HasChecksum(checksum_registry, repo_url) THEN
            LET expected == checksum_registry[repo_url]
                current == walk_and_checksum(workspace[repo_name].tree,
                                             io.unreadable, PathOrder)
                res == VerifyOutcome(io.dir_error,
                            verify_repo_checksums(current, expected))
                tr1 == tr0 \o <<Ev("host", "git rev-parse", "any"),
                                Ev("verify", "verify_repo_checksums", res)>>
            IN
            /\ verified' = (res = "match")
            /\ IF res = "mismatch" /\ args.trust_mode # "yolo" THEN
                    /\ pc' = "prompt_verify"
                    /\ trace' = tr1
                    /\ UNCHANGED warnings
               ELSE ScanStep(tr1, scan_unreadable)
       ELSE /\ verified' = FALSE
            /\ ScanStep(tr0, scan_unreadable)
    /\ UNCHANGED <<disk, nCommands, disk0, cmd, exit_code, outcome, args,
                   bwrap_present, repo_url, repo_name, has_checksum,
                   final_path, invocations>>

\* The prompt after a verification that came back Ok(false).
prompt_verify(answer, scan_unreadable) ==
    /\ pc = "prompt_verify"
    /\ UNCHANGED engine
    /\ IF ~prompt_user(answer) THEN
            /\ workspace' = RemoveWorkspace(workspace, repo_name)
            /\ trace' = trace \o <<Prompted("verify", answer),
                                   Ev("fs", "remove_dir_all", repo_name)>>
            /\ Exit(0, "Cancelled")
            /\ UNCHANGED warnings
       ELSE /\ ScanStep(Append(trace, Prompted("verify", answer)),
                        scan_unreadable)
            /\ UNCHANGED <<workspace, exit_code, outcome>>
    /\ UNCHANGED <<installed_repos, checksum_registry, cwd, nCommands, disk0, cmd,
                   args, bwrap_present, repo_url, repo_name, has_checksum,
                   config, commit_hash, verified, final_path, invocations>>

\* The prompt after a scan with findings.
prompt_scan(answer) ==
    /\ pc = "prompt_scan"
    /\ UNCHANGED engine
    /\ IF ~prompt_user(answer) THEN
            /\ workspace' = RemoveWorkspace(workspace, repo_name)
            /\ trace' = trace \o <<Prompted("scan", answer),
                                   Ev("fs", "remove_dir_all", repo_name)>>
            /\ Exit(0, "Cancelled")
       ELSE /\ trace' = Append(trace, Prompted("scan", answer))
            /\ pc' = CopyGate(args.trust_mode)
            /\ UNCHANGED <<workspace, exit_code, outcome>>
    /\ UNCHANGED <<installed_repos, checksum_registry, cwd, nCommands, disk0, cmd,
                   args, bwrap_present, locals, invocations>>

\* A save that replaces the records by the new one.
AddRepo_overwrites(tr, path) ==
    /\ final_path' = path
    /\ installed_repos' =
            << [ name           |-> repo_name,
                 url            |-> repo_url,
                 path           |-> path,
                 commit_hash    |-> commit_hash,
                 verified       |-> verified,
                 workspace_path |-> Some(WorkspacePath(repo_name)) ] >>
    /\ checksum_registry' = config.checksum_registry
    /\ trace' = Append(tr, Ev("registry", "add_repo", "saved"))
    /\ Exit(0, "Complete")

\* config.add_repo(..) and save(), then the handler returns.
AddRepo(tr, path) ==
    /\ final_path' = path
    /\ installed_repos' = Append(config.installed_repos,
            [ name           |-> repo_name,
              url            |-> repo_url,
              path           |-> path,
              commit_hash    |-> commit_hash,
              verified       |-> verified,
              workspace_path |-> Some(WorkspacePath(repo_name)) ])
    /\ checksum_registry' = config.checksum_registry
    /\ trace' = Append(tr, Ev("registry", "add_repo", "saved"))
    /\ Exit(0, "Complete")

\* The prompt before the copy into the working directory.
prompt_copy(answer) ==
    /\ pc = "prompt_copy"
    /\ UNCHANGED engine
    /\ IF prompt_user(answer) THEN
            /\ pc' = "copy"
            /\ trace' = Append(trace, Prompted("copy", answer))
            /\ UNCHANGED <<installed_repos, checksum_registry, exit_code,
                           outcome, final_path>>
       ELSE AddRepo(Append(trace, Prompted("copy", answer)),
                    FinalPath(FALSE, "", repo_name))
    /\ UNCHANGED <<workspace, cwd, nCommands, disk0, cmd, args, bwrap_present,
                   repo_url, repo_name, has_checksum, config, commit_hash,
                   verified, warnings, invocations>>

\* What `cp -r` can come back with.
CopyStatuses == {"exit0", "failed"}

\* cp -r <repo in workspace> <cwd>/<name>, then the record.
copy(status) ==
    /\ pc = "copy"
    /\ UNCHANGED engine
    /\ cwd' = IF status = "exit0" THEN [cwd EXCEPT ![repo_name] = "copied"]
              ELSE cwd
    /\ AddRepo(Append(trace, Ev("host", "cp -r", status)),
               FinalPath(TRUE, status, repo_name))
    /\ UNCHANGED <<workspace, nCommands, disk0, cmd, args, bwrap_present, repo_url,
                   repo_name, has_checksum, config, commit_hash, verified,
                   warnings, invocations>>

(* ------------------------ commands/checksum.rs ------------------------ *)

\* An insert that keeps the new entry alone.
add_checksum_alone(registry, url, fp) == [u \in {url} |-> fp]

\* config.add_checksum: insert under the URL.
add_checksum(registry, url, fp) ==
    [u \in DOMAIN registry \cup {url} |->
        IF u = url THEN fp ELSE registry[u]]

\* gitfetch checksum <path> [--save], on a directory holding `tree`.
checksum_command(tree, git, io, save) ==
    /\ Begin
    /\ cmd' = "checksum"
    /\ UNCHANGED engine
    /\ args' = NoArgs
    /\ invocations' = <<>>
    /\ repo_url' = <<>> /\ repo_name' = "" /\ has_checksum' = FALSE
    /\ commit_hash' = None /\ verified' = FALSE /\ warnings' = <<>>
    /\ final_path' = <<>>
    /\ bwrap_present' = FALSE
    /\ LET tr0 == <<Ev("host", "git rev-parse",
                       IF git.head = None THEN "fail" ELSE "ok")>>
       IN
       IF io.dir_error THEN
            /\ trace' = tr0
            /\ Exit(1, "Failed")
            /\ config' = EmptyConfig
            /\ UNCHANGED checksum_registry
       ELSE LET fp == calculate_repo_checksums(tree, io.unreadable,
                                               PathOrder, PathOrder,
                                               git.head, git.remote)
                tr1 == Append(tr0, Ev("host", "git config --get",
                                IF git.remote = None THEN "fail" ELSE "ok"))
            IN
            /\ Exit(0, "Complete")
            /\ IF save THEN
                    /\ config' = LoadConfig
                    /\ checksum_registry' =
                            add_checksum(checksum_registry, fp.repo_url, fp)
                    /\ trace' = Append(tr1, Ev("registry", "add_checksum",
                                               "saved"))
               ELSE /\ config' = EmptyConfig
                    /\ trace' = tr1
                    /\ UNCHANGED checksum_registry
    /\ UNCHANGED <<installed_repos, workspace, cwd>>

\* gitfetch verify <path>, on a directory holding `tree`.
verify_command(tree, git, io) ==
    /\ Begin
    /\ cmd' = "verify"
    /\ UNCHANGED engine
    /\ args' = NoArgs
    /\ invocations' = <<>>
    /\ repo_url' = <<>> /\ repo_name' = "" /\ has_checksum' = FALSE
    /\ commit_hash' = None /\ verified' = FALSE /\ warnings' = <<>>
    /\ final_path' = <<>>
    /\ bwrap_present' = FALSE
    /\ LET tr0 == <<Ev("host", "git config --get",
                       IF git.remote = None THEN "fail" ELSE "ok")>>
       IN
       IF git.remote = None THEN
            /\ trace' = tr0
            /\ Exit(101, "Panicked")
            /\ config' = EmptyConfig
       ELSE IF ~HasChecksum(checksum_registry, git.remote[1]) THEN
            /\ trace' = tr0
            /\ Exit(1, "NoFingerprint")
            /\ config' = LoadConfig
       ELSE LET expected == checksum_registry[git.remote[1]]
                current == walk_and_checksum(tree, io.unreadable, PathOrder)
                res == VerifyOutcome(io.dir_error,
                            verify_repo_checksums(current, expected))
            IN
            /\ trace' = tr0 \o <<Ev("host", "git rev-parse", "any"),
                                  Ev("verify", "verify_repo_checksums", res)>>
            /\ config' = LoadConfig
            /\ IF res = "match" THEN Exit(0, "Verified")
               ELSE Exit(1, "VerificationFailed")
    /\ UNCHANGED disk

(* --------------------------- commands/list.rs ------------------------- *)

\* gitfetch list: prints the records.
list_repos ==
    /\ Begin
    /\ cmd' = "list"
    /\ UNCHANGED engine
    /\ args' = NoArgs
    /\ invocations' = <<>>
    /\ repo_url' = <<>> /\ repo_name' = "" /\ has_checksum' = FALSE
    /\ commit_hash' = None /\ verified' = FALSE /\ warnings' = <<>>
    /\ final_path' = <<>>
    /\ bwrap_present' = FALSE
    /\ config' = LoadConfig
    /\ trace' = <<Ev("registry", "list", "printed")>>
    /\ Exit(0, "Complete")
    /\ UNCHANGED disk

(* ------------------------------- next --------------------------------- *)

Options(S) == {None} \cup {Some(x) : x \in S}

Next ==
    \/ \E repo \in RepoArgs, vc \in BOOLEAN, tm \in TrustModes,
          which_ok \in BOOLEAN :
            clone_start(repo, vc, tm, which_ok)
    \/ \E answer \in Answers : prompt_fetch(answer)
    \/ \E status \in SandboxStatuses : stage1(status)
    \/ \E status \in SandboxStatuses, tree \in WorkTrees : stage2(status, tree)
    \/ \E hashres \in Options(CommitIds), io \in WalkFaults,
          scan_unreadable \in Unreadables :
            post_checkout(hashres, io, scan_unreadable)
    \/ \E answer \in Answers, scan_unreadable \in Unreadables :
            prompt_verify(answer, scan_unreadable)
    \/ \E answer \in Answers : prompt_scan(answer)
    \/ \E answer \in Answers : prompt_copy(answer)
    \/ \E status \in CopyStatuses : copy(status)
    \/ \E tree \in WorkTrees, git \in GitDirs, io \in WalkFaults,
          save \in BOOLEAN :
            checksum_command(tree, git, io, save)
    \/ \E tree \in WorkTrees, git \in GitDirs, io \in WalkFaults :
            verify_command(tree, git, io)
    \/ list_repos

Spec == Init /\ [][Next]_vars

(* --------------------- the checksum engine alone ---------------------- *)

\* calculate_repo_checksums and verify_repo_checksums on one directory that
\* is edited between the calls; no command of the pipeline runs.

pipeline == <<installed_repos, checksum_registry, workspace, cwd, nCommands,
              disk0, cmd, pc, exit_code, outcome, args, bwrap_present,
              repo_url, repo_name, has_checksum, config, commit_hash,
              verified, warnings, final_path, trace, invocations>>

EngineInit ==
    /\ NoCommandYet
    /\ dir \in [tree : EngineTrees, unreadable : Unreadables]
    /\ computed = <<>>
    /\ last_report = None
    /\ scans = <<>>

\* calculate_repo_checksums(dir), the walk and the map yielding their
\* entries in the given orders; the directory it saw is kept with it.
calculate(order, iter_order, git) ==
    /\ computed' =
            << [ fp |-> calculate_repo_checksums(dir.tree, dir.unreadable,
                            order, iter_order, git.head, git.remote),
                 tree |-> dir.tree,
                 unreadable |-> dir.unreadable,
                 order |-> order,
                 iter_order |-> iter_order ] >>
            \o (IF /\ computed # <<>>
                   /\ computed[1].tree = dir.tree
                   /\ computed[1].unreadable = dir.unreadable
                THEN <<computed[1]>> ELSE <<>>)
    /\ last_report' = None
    /\ UNCHANGED <<dir, scans, pipeline>>

\* A file of the directory is written (content), created or deleted.
edit(path, content) ==
    /\ computed # <<>>
    /\ content # dir.tree[path]
    /\ [dir.tree EXCEPT ![path] = content] \in EngineTrees
    /\ dir' = [dir EXCEPT !.tree[path] = content]
    /\ last_report' = None
    /\ UNCHANGED <<computed, scans, pipeline>>

\* A file of the directory becomes unreadable, or readable again.
chmod(path) ==
    /\ computed # <<>>
    /\ dir' = [dir EXCEPT !.unreadable =
                    IF path \in @ THEN @ \ {path} ELSE @ \cup {path}]
    /\ last_report' = None
    /\ UNCHANGED <<computed, scans, pipeline>>

\* verify_repo_checksums(dir, newest fingerprint), Ok branch.
verify(order, current_commit) ==
    /\ computed # <<>>
    /\ last_report = None
    /\ last_report' = Some(VerifyReport(current_commit,
                        walk_and_checksum(dir.tree, dir.unreadable, order),
                        computed[1].fp))
    /\ UNCHANGED <<dir, computed, scans, pipeline>>

EngineNext ==
    \/ \E order \in EntryOrders, iter_order \in EntryOrders,
          git \in {g \in GitDirs : g.remote = Some(ResolveUrl(<<"alice", "tool">>))} :
            calculate(order, iter_order, git)
    \/ \E path \in PathSet, content \in Contents \cup {Absent} :
            edit(path, content)
    \/ \E path \in UNION Unreadables : chmod(path)
    \/ \E order \in EntryOrders, current_commit \in Options(EngineCommits) :
            verify(order, current_commit)

EngineSpec == EngineInit /\ [][EngineNext]_vars

(* --------------------------- the scan alone --------------------------- *)

ScanInit ==
    /\ NoCommandYet
    /\ dir \in [tree : ScanTrees, unreadable : Unreadables]
    /\ computed = <<>>
    /\ last_report = None
    /\ scans = <<>>

\* scan_for_suspicious_patterns(dir), read_dir yielding the entries in the
\* given order; the scan before it is kept with it.
scan(order) ==
    /\ scans' = << [ found |-> ScanDir(dir.tree, dir.unreadable, order),
                     order |-> order ] >>
                \o (IF scans # <<>> THEN <<scans[1]>> ELSE <<>>)
    /\ UNCHANGED <<dir, computed, last_report, pipeline>>

ScanNext == \E order \in EntryOrders : scan(order)

ScanSpec == ScanInit /\ [][ScanNext]_vars

(* ------------------------------ claims -------------------------------- *)

Acquiring == cmd = "clone"
Steps == 1..Len(trace)
Has(kind, op, res) == \E i \in Steps : trace[i] = Ev(kind, op, res)
HasOp(kind, op) == \E i \in Steps : trace[i].kind = kind /\ trace[i].op = op
Count(kind, op) ==
    Cardinality({i \in Steps : trace[i].kind = kind /\ trace[i].op = op})
IsFetch(inv) == inv.git_args[1] = "clone" /\ inv.git_args[2] = "--no-checkout"
IsCheckout(inv) == inv.git_args[1] = "checkout" /\ inv.git_args[2] = "--force"
NetworkCut(inv) == "net" \in inv.profile.unshare

\* C1: in every run and trust mode the fetch stage (clone --no-checkout) is
\* the only isolated invocation made with allow_network = true, and the
\* checkout stage is invoked with allow_network = false, which puts the
\* network namespace among the ones its profile unshares.
C1_NetworkOnlyForFetch ==
    \A i \in 1..Len(invocations) :
        LET inv == invocations[i] IN
        /\ inv.with_network <=> IsFetch(inv)
        /\ IsCheckout(inv) => ~inv.with_network /\ NetworkCut(inv)
        /\ inv.with_network => ~NetworkCut(inv)

C1_BothStagesRan ==
    /\ Acquiring /\ args.trust_mode = "yolo" /\ Len(invocations) = 2
    /\ IsFetch(invocations[1]) /\ IsCheckout(invocations[2])

\* C2: during an acquisition git is never started directly on the host on
\* the workspace content: every git process is a run_sandboxed_git call.
C2_GitOnlyInSandbox ==
    Acquiring => ~HasOp("host", "git rev-parse")

IsLaterStep(e) ==
    \/ e.kind \in {"verify", "scan", "registry"}
    \/ e.kind = "prompt" /\ e.op \in {"verify", "scan", "copy"}
    \/ e.kind = "host" /\ e.op \in {"git rev-parse", "cp -r"}

\* C3: the protocol is linear: each stage is invoked at most once per run,
\* the checkout stage only after the fetch stage returned success, and
\* verification, scan, materialization and the registry append only after
\* the checkout stage returned success.
C3_LinearProtocol ==
    Acquiring =>
        /\ Count("sandbox", "clone") <= 1
        /\ Count("sandbox", "checkout") <= 1
        /\ Len(invocations) = Count("sandbox", "clone")
                                + Count("sandbox", "checkout")
        /\ \A j \in Steps :
              trace[j].kind = "sandbox" /\ trace[j].op = "checkout" =>
                \E i \in 1..(j - 1) : trace[i] = Ev("sandbox", "clone", "exit0")
        /\ \A k \in Steps :
              IsLaterStep(trace[k]) =>
                \E j \in 1..(k - 1) :
                    trace[j] = Ev("sandbox", "checkout", "exit0")
        /\ pc = "stage2" =>
              Has("sandbox", "clone", "exit0") /\ ~HasOp("sandbox", "checkout")
        /\ pc \in {"post_checkout", "prompt_verify", "prompt_scan",
                   "prompt_copy", "copy"} =>
              Has("sandbox", "checkout", "exit0")

C3_RunCompleted ==
    /\ Acquiring /\ pc = "exited" /\ outcome = "Complete"
    /\ HasOp("verify", "verify_repo_checksums") /\ HasOp("host", "cp -r")

FetchFailed ==
    Len(invocations) >= 1 /\ invocations[1].status # "exit0"
StageFailed ==
    \E i \in 1..Len(invocations) : invocations[i].status # "exit0"

\* C4: when the fetch or the checkout stage fails (non-zero exit, timeout)
\* the run ends with exit code 1, its workspace directory removed, nothing
\* copied into the working directory and no record appended; after a fetch
\* failure the checkout stage is not invoked.
C4_StageFailureAborts ==
    Acquiring /\ StageFailed =>
        /\ pc = "exited" /\ exit_code = 1
        /\ outcome \in {"FetchFailed", "CheckoutFailed"}
        /\ workspace[repo_name].state = "absent"
        /\ cwd = disk0.cwd /\ ~HasOp("host", "cp -r")
        /\ installed_repos = disk0.installed_repos
        /\ ~HasOp("registry", "add_repo")
        /\ FetchFailed =>
              Len(invocations) = 1 /\ ~HasOp("sandbox", "checkout")

C4_CheckoutTimedOut ==
    /\ Acquiring /\ outcome = "CheckoutFailed"
    /\ Len(invocations) = 2 /\ invocations[2].status = "timeout"

\* C5: acquire with --verify-checksum and no fingerprint in the registry for
\* the resolved URL exits 1 in every trust mode without a single
\* run_sandboxed_git call.
C5_RequiredVerifyFailsFast ==
    ( /\ Acquiring /\ args.verify_checksum /\ ValidRepo(args.repo)
      /\ ResolveUrl(args.repo) \notin DOMAIN disk0.checksum_registry )
    => /\ pc = "exited" /\ exit_code = 1
       /\ invocations = <<>>
       /\ \A i \in Steps : trace[i].kind # "sandbox"
       /\ bwrap_present => outcome = "NoFingerprintOnRequiredVerify"

C5_AbortedInYolo ==
    /\ Acquiring /\ pc = "exited" /\ args.trust_mode = "yolo"
    /\ outcome = "NoFingerprintOnRequiredVerify"

\* C6: when the run aborts with NoFingerprintOnRequiredVerify no workspace
\* directory has been created for it, and none is left behind.
C6_NothingCreatedOnPreconditionAbort ==
    Acquiring /\ outcome = "NoFingerprintOnRequiredVerify" =>
        /\ workspace[repo_name].state = "absent"
        /\ ~HasOp("fs", "create_dir_all")

\* C7: without bwrap acquire exits 1 at the pre-flight check, made once and
\* first: no workspace directory is created or touched, no stage runs and
\* git is not started at all.
C7_NoIsolationNoRun ==
    Acquiring =>
        /\ trace[1].op = "which bwrap" /\ Count("host", "which bwrap") = 1
        /\ ~bwrap_present =>
              /\ pc = "exited" /\ exit_code = 1
              /\ outcome = "IsolationUnavailable"
              /\ workspace = disk0.workspace
              /\ invocations = <<>>
              /\ trace = <<Ev("host", "which bwrap", "fail")>>

C7_IsolationUnavailable ==
    /\ Acquiring /\ ~bwrap_present /\ outcome = "IsolationUnavailable"
    /\ args.repo = <<"alice", "tool">>

FixedEnv ==
    { <<"PATH", "/usr/bin:/bin">>, <<"HOME", "/workspace">>,
      <<"GIT_CONFIG_COUNT", "1">>, <<"GIT_CONFIG_KEY_0", "core.hooksPath">>,
      <<"GIT_CONFIG_VALUE_0", "/dev/null">> }
HooksDisabled(inv) ==
    /\ <<"GIT_CONFIG_COUNT", "1">> \in inv.profile.setenv
    /\ <<"GIT_CONFIG_KEY_0", "core.hooksPath">> \in inv.profile.setenv
    /\ <<"GIT_CONFIG_VALUE_0", "/dev/null">> \in inv.profile.setenv
Materializes(inv) == ~IsFetch(inv)

\* C8: every isolated invocation, with or without network, clears the
\* environment, sets exactly the fixed variables and points core.hooksPath
\* at /dev/null; so none has the network together with hooks or the
\* materialization of the working tree.
C8_HooksOffEverywhere ==
    \A i \in 1..Len(invocations) :
        LET inv == invocations[i] IN
        /\ inv.profile.clearenv
        /\ inv.profile.setenv = FixedEnv
        /\ HooksDisabled(inv)
        /\ ~(inv.with_network /\ (~HooksDisabled(inv) \/ Materializes(inv)))

C8_BothProfilesBuilt ==
    /\ Acquiring /\ args.trust_mode = "paranoid" /\ Len(invocations) = 2
    /\ invocations[1].with_network /\ ~invocations[2].with_network

PromptedYes(point) == Has("prompt", point, "yes")
VerificationFailed ==
    \E i \in Steps : /\ trace[i].kind = "verify"
                     /\ trace[i].res \in {"mismatch", "error"}
PastVerification == HasOp("scan", "scan_for_suspicious_patterns")
PastScanGate ==
    pc \in {"prompt_copy", "copy"} \/ (pc = "exited" /\ outcome = "Complete")
Copying == pc = "copy" \/ HasOp("host", "cp -r")

\* C9: a Paranoid run passes no decision point (before fetch, after a failed
\* verification, after a scan with findings, before the copy into the
\* working directory) unless the user was prompted there and said yes.
C9_ParanoidAlwaysAsks ==
    Acquiring /\ args.trust_mode = "paranoid" =>
        /\ (pc = "stage1" \/ invocations # <<>>) => PromptedYes("fetch")
        /\ VerificationFailed /\ PastVerification => PromptedYes("verify")
        /\ warnings # <<>> /\ PastScanGate => PromptedYes("scan")
        /\ Copying => PromptedYes("copy")

\* C10: a Normal run prompts before fetch iff no fingerprint is known for
\* the source, prompts after a failed verification, and prompts neither
\* after a scan with findings nor before the copy.
C10_NormalPrompts ==
    Acquiring /\ args.trust_mode = "normal" =>
        /\ pc = "prompt_fetch" => ~HasChecksum(disk0.checksum_registry, repo_url)
        /\ (pc = "stage1" \/ invocations # <<>>) =>
              (HasOp("prompt", "fetch")
                 <=> ~HasChecksum(disk0.checksum_registry, repo_url))
        /\ VerificationFailed /\ PastVerification => HasOp("prompt", "verify")
        /\ pc \notin {"prompt_scan", "prompt_copy"}
        /\ ~HasOp("prompt", "scan") /\ ~HasOp("prompt", "copy")

PromptPcs == {"prompt_fetch", "prompt_verify", "prompt_scan", "prompt_copy"}
Completed == Acquiring /\ pc = "exited" /\ outcome = "Complete"
LastRecord == installed_repos[Len(installed_repos)]
FingerprintKnown == HasChecksum(disk0.checksum_registry, repo_url)

\* C11: a Yolo run never stands at a prompt and issues none, whatever the
\* fingerprint, the verification result and the scan result; after a failed
\* verification it goes on to the copy and the record says verified = false.
C11_YoloNeverAsks ==
    Acquiring /\ args.trust_mode = "yolo" =>
        /\ pc \notin PromptPcs
        /\ \A i \in Steps : trace[i].kind # "prompt"
        /\ VerificationFailed =>
              /\ pc = "copy" \/ Completed
              /\ ~verified
              /\ Completed => ~LastRecord.verified

C11_YoloPassedMismatch ==
    /\ Completed /\ args.trust_mode = "yolo"
    /\ Has("verify", "verify_repo_checksums", "mismatch")
    /\ warnings # <<>> /\ ~LastRecord.verified

\* C12: the record a completed run appends has verified = true exactly when
\* verify_repo_checksums returned a full match in that run, which takes a
\* fingerprint known for the URL whose every file is in the checked-out
\* tree with the same digest; with no fingerprint, a mismatch passed or a
\* verification error the record has verified = false.
C12_VerifiedOnlyOnMatch ==
    Completed =>
        /\ LastRecord.verified
              <=> Has("verify", "verify_repo_checksums", "match")
        /\ LastRecord.verified =>
              /\ FingerprintKnown
              /\ LET exp == disk0.checksum_registry[repo_url].file_checksums
                     tree == workspace[repo_name].tree
                 IN \A p \in DOMAIN exp :
                        /\ tree[p] # Absent
                        /\ exp[p] = calculate_file_checksum(tree[p])
        /\ (~FingerprintKnown \/ VerificationFailed) => ~LastRecord.verified

C12_RecordedVerified ==
    /\ Completed /\ LastRecord.verified
    /\ workspace[repo_name].tree["run.sh"] # Absent

\* C13: once a verification has failed (mismatch or error), a run is past
\* it, at the scan or later, only if the user said yes to the prompt about
\* it or the mode is Yolo.
C13_UnverifiedOnlyWithConsent ==
    Acquiring /\ VerificationFailed /\ PastVerification =>
        PromptedYes("verify") \/ args.trust_mode = "yolo"

Declined ==
    \E i \in Steps : /\ trace[i].kind = "prompt"
                     /\ trace[i].op \in {"fetch", "verify", "scan"}
                     /\ trace[i].res = "no"

\* C14: after a no at the pre-fetch, the verification-failure or the scan
\* prompt the run has ended cancelled with exit code 0, nothing copied
\* into the working directory and no record appended.
C14_DeclineCancels ==
    Acquiring /\ Declined =>
        /\ pc = "exited" /\ exit_code = 0 /\ outcome = "Cancelled"
        /\ cwd = disk0.cwd /\ ~HasOp("host", "cp -r")
        /\ installed_repos = disk0.installed_repos
        /\ ~HasOp("registry", "add_repo")

C14_DeclinedAfterScan ==
    /\ Acquiring /\ Has("prompt", "scan", "no") /\ exit_code = 0
    /\ Len(invocations) = 2

\* Where a step stands in the order of the pipeline; 0 for the others.
StepRank(e) ==
    CASE e.kind = "sandbox" /\ e.op = "clone"    -> 1
      [] e.kind = "sandbox" /\ e.op = "checkout" -> 2
      [] e.kind = "verify"                       -> 3
      [] e.kind = "prompt" /\ e.op = "verify"    -> 4
      [] e.kind = "scan"                         -> 5
      [] e.kind = "prompt" /\ e.op = "scan"      -> 6
      [] e.kind = "prompt" /\ e.op = "copy"      -> 7
      [] e.kind = "host" /\ e.op = "cp -r"       -> 8
      [] e.kind = "registry" /\ e.op = "add_repo" -> 9
      [] OTHER                                   -> 0

Saved == cmd = "checksum" /\ Has("registry", "add_checksum", "saved")

\* C16: checksum_registry differs from what the command found only after
\* checksum --save, which puts the new fingerprint under its repo_url and
\* leaves the other entries alone; checksum without --save, verify, list
\* and every clone leave it as it was.
C16_FingerprintsOnlyBySave ==
    /\ ~Saved => checksum_registry = disk0.checksum_registry
    /\ Saved =>
          \E u \in DOMAIN checksum_registry :
              /\ checksum_registry[u].repo_url = u
              /\ DOMAIN checksum_registry
                    = DOMAIN disk0.checksum_registry \cup {u}
              /\ \A v \in DOMAIN disk0.checksum_registry \ {u} :
                    checksum_registry[v] = disk0.checksum_registry[v]

C16_CloneKeptFingerprint ==
    /\ Completed /\ checksum_registry # NoChecksums
    /\ checksum_registry = disk0.checksum_registry

\* C17: installed_repos only grows at its end: a completed clone leaves the
\* records it found in place and appends one for its URL, also when one for
\* that URL is there already; every other run leaves the list as it was.
C17_AppendOnly ==
    LET before == disk0.installed_repos IN
    /\ Len(installed_repos) >= Len(before)
    /\ SubSeq(installed_repos, 1, Len(before)) = before
    /\ Completed =>
          /\ Len(installed_repos) = Len(before) + 1
          /\ LastRecord.url = repo_url /\ LastRecord.name = repo_name
    /\ ~Completed => installed_repos = before

C17_AcquiredTwice ==
    /\ Completed /\ Len(installed_repos) = 2
    /\ installed_repos[1].url = installed_repos[2].url

Newest == computed[1]
Tracked == DOMAIN Newest.fp.file_checksums
Touched == {p \in PathSet : dir.tree[p] # Newest.tree[p]}
Verdict == last_report[1]
WalkNow(order) == walk_and_checksum(dir.tree, dir.unreadable, order)
\* Every file can be read now exactly if it could when the newest
\* fingerprint was computed.
SameAccess == dir.unreadable = Newest.unreadable

\* C18: two fingerprints computed of directories holding the same (path,
\* content) pairs have the same file_checksums and the same total_hash,
\* whatever the orders in which read_dir and the map yielded the entries.
C18_OrderIndependent ==
    /\ Len(computed) = 2 /\ computed[1].tree = computed[2].tree
    /\ computed[1].unreadable = computed[2].unreadable
    =>
        /\ computed[1].fp.file_checksums = computed[2].fp.file_checksums
        /\ computed[1].fp.total_hash = computed[2].fp.total_hash

C18_TwoOrders ==
    /\ Len(computed) = 2 /\ computed[1].tree = computed[2].tree
    /\ computed[1].order # computed[2].order
    /\ computed[1].iter_order # computed[2].iter_order
    /\ Cardinality(DOMAIN computed[1].fp.file_checksums) = 2

\* C19: verifying a directory against the fingerprint computed of it, no
\* file differing from what the fingerprint saw, is a full match: all_match,
\* no issue, and as many verified as the fingerprint has files.
C19_RoundTrip ==
    computed # <<>> /\ last_report # None /\ Touched = {} /\ SameAccess =>
        /\ Verdict.all_match
        /\ Verdict.issues = 0
        /\ Verdict.verified = Cardinality(Tracked)

C19_VerifiedUntouched ==
    /\ computed # <<>> /\ last_report # None /\ Touched = {} /\ SameAccess
    /\ Verdict.verified = 2

OneChanged ==
    /\ computed # <<>> /\ SameAccess
    /\ \E p \in Tracked : Touched = {p} /\ dir.tree[p] # Absent

\* C20: with the content of exactly one tracked file changed since the
\* fingerprint, that file's checksum and the total hash computed now differ
\* from the fingerprint's, and verify fails with one issue, counted by the
\* branch for a changed file, every other tracked file verified.
C20_OneChangeOneIssue ==
    OneChanged =>
        LET p == CHOOSE q \in Touched : TRUE IN
        /\ \A order \in EntryOrders :
              WalkNow(order)[p] # Newest.fp.file_checksums[p]
        /\ \A order \in EntryOrders, iter_order \in EntryOrders :
              TotalHash(WalkNow(order), iter_order) # Newest.fp.total_hash
        /\ last_report # None =>
              /\ ~Verdict.all_match
              /\ Verdict.issues = 1 /\ Verdict.changed = 1
              /\ Verdict.missing = 0 /\ Verdict.unexpected = 0
              /\ Verdict.verified = Cardinality(Tracked) - 1

C20_ChangedAndVerified ==
    /\ OneChanged /\ last_report # None
    /\ Verdict.changed = 1 /\ Verdict.verified = 1

\* The one file created since the newest fingerprint, nothing else touched.
Added(p) ==
    /\ computed # <<>> /\ SameAccess
    /\ Touched = {p}
    /\ Newest.tree[p] = Absent /\ dir.tree[p] # Absent
    /\ p \notin Tracked

\* What verify says after one unexpected file.
OneUnexpected ==
    /\ \A order \in EntryOrders, q \in Tracked :
          /\ q \in DOMAIN WalkNow(order)
          /\ WalkNow(order)[q] = Newest.fp.file_checksums[q]
    /\ last_report # None =>
          /\ ~Verdict.all_match
          /\ Verdict.issues = 1 /\ Verdict.unexpected = 1
          /\ Verdict.changed = 0 /\ Verdict.missing = 0
          /\ Verdict.verified = Cardinality(Tracked)

\* C21, as claimed: one file created anywhere under the root, whatever its
\* name, leaves the checksums of the others as they were and makes verify
\* fail with one issue, counted by the branch for an unexpected file.
C21_AnyAddedFileUnexpected ==
    \A p \in PathSet : Added(p) => OneUnexpected

\* C21, amended: the same of a file the walk reads: no name on its path is
\* skipped (leading '.', node_modules, target) and it can be opened.
C21_AddedReadFileUnexpected ==
    \A p \in PathSet :
        Added(p) /\ ~WalkSkipsPath(p) /\ p \notin dir.unreadable
            => OneUnexpected

C21_AddedInSubdirectory ==
    /\ Added("lib/tool.sh") /\ last_report # None
    /\ Verdict.unexpected = 1 /\ Verdict.verified = 2

OneRemoved ==
    /\ computed # <<>> /\ SameAccess
    /\ \E p \in Tracked : Touched = {p} /\ dir.tree[p] = Absent

\* C22: with exactly one tracked file deleted since the fingerprint, verify
\* fails with one issue, counted by the branch for a missing file, every
\* remaining tracked file verified.
C22_OneRemovalOneIssue ==
    OneRemoved /\ last_report # None =>
        /\ ~Verdict.all_match
        /\ Verdict.issues = 1 /\ Verdict.missing = 1
        /\ Verdict.changed = 0 /\ Verdict.unexpected = 0
        /\ Verdict.verified = Cardinality(Tracked) - 1

C22_RemovedAndVerified ==
    /\ OneRemoved /\ last_report # None
    /\ Verdict.missing = 1 /\ Verdict.verified = 2

\* C23: the verdict of verify is the comparison of the checksums of the
\* files now with the fingerprint's, whatever the current revision id: a
\* different one is warned of and an unobtainable one passed over, neither
\* failing a content match, and an equal one saves no content difference.
C23_VerdictByContentAlone ==
    computed # <<>> /\ last_report # None =>
        /\ \A order \in EntryOrders :
              Verdict.all_match
                <=> WalkNow(order) = Newest.fp.file_checksums
        /\ Verdict.commit_warning
              <=> /\ Verdict.current_commit # None
                  /\ Verdict.current_commit[1] # Newest.fp.commit_hash

C23_MatchDespiteDrift ==
    /\ computed # <<>> /\ last_report # None
    /\ Verdict.commit_warning /\ Verdict.all_match /\ Verdict.verified = 2

\* The files the walk reads now: present, under no skipped name, readable.
ReadNow ==
    {p \in PathSet : /\ dir.tree[p] # Absent
                     /\ ~WalkSkipsPath(p)
                     /\ p \notin dir.unreadable}

\* The files the walk passed over for an I/O error, now or when the newest
\* fingerprint was computed.
SkippedNow ==
    {p \in dir.unreadable : dir.tree[p] # Absent /\ ~WalkSkipsPath(p)}
SkippedThen ==
    {p \in Newest.unreadable : Newest.tree[p] # Absent /\ ~WalkSkipsPath(p)}

\* A file that cannot be read is passed over and the walk goes on: the
\* fingerprint and the verification hold every file that can be read.
WalkGoesOn ==
    /\ \A order \in EntryOrders : DOMAIN WalkNow(order) = ReadNow
    /\ computed # <<>> =>
          Tracked = {p \in PathSet : /\ Newest.tree[p] # Absent
                                     /\ ~WalkSkipsPath(p)
                                     /\ p \notin Newest.unreadable}

\* C24, as claimed: the walk goes on past a file it cannot read, and
\* whenever a file was passed over, at the fingerprint or at the
\* verification, verify fails and counts a missing file.
C24_EverySkipRevealed ==
    /\ WalkGoesOn
    /\ computed # <<>> /\ last_report # None
       /\ SkippedNow \cup SkippedThen # {}
       => ~Verdict.all_match /\ Verdict.missing >= 1

\* C24, amended: the walk goes on past a file it cannot read, and whenever
\* files the fingerprint records are passed over at the verification,
\* verify fails and counts each of them among the missing, which are the
\* recorded files it did not read.
C24_TrackedSkipRevealed ==
    /\ WalkGoesOn
    /\ computed # <<>> /\ last_report # None
       /\ SkippedNow \cap Tracked # {}
       => /\ ~Verdict.all_match
          /\ Verdict.missing = Cardinality(Tracked \ ReadNow)
          /\ SkippedNow \cap Tracked \subseteq Tracked \ ReadNow

C24_TrackedFileSkipped ==
    /\ computed # <<>> /\ last_report # None /\ Touched = {}
    /\ SkippedNow \cap Tracked = {"run.sh"}
    /\ Verdict.missing = 1 /\ Verdict.verified = 1

\* The findings of a scan that name the file.
FindingsOf(found, name) == {k \in 1..Len(found) : found[k][1] = name}

\* The files of the directory the scan reads.
ScannedNow == {p \in PathSet : Scanned(dir.tree, dir.unreadable, p)}

Idempotent == Len(scans) = 2 => scans[1].found = scans[2].found

\* A file holds the literal text "rm -rf".
HoldsDeletion(p) == dir.tree[p] # Absent /\ StrContains(dir.tree[p], "rm -rf")

\* C26, as claimed: every file of the directory that holds "rm -rf" has
\* exactly one finding in the scan, and two scans of the directory return
\* the same list.
C26_AnyFileFlagged ==
    /\ \A s \in 1..Len(scans), p \in PathSet :
          HoldsDeletion(p) =>
              Cardinality(FindingsOf(scans[s].found, FileName(p))) = 1
    /\ Idempotent

\* C26, amended: the same of the files the scan reads: at the top level
\* of the directory, not hidden, with a listed extension, readable as
\* text.
C26_ScannedFileFlagged ==
    /\ \A s \in 1..Len(scans), p \in ScannedNow :
          HoldsDeletion(p) =>
              Cardinality(FindingsOf(scans[s].found, FileName(p))) = 1
    /\ Idempotent

C26_FlaggedTwice ==
    /\ Len(scans) = 2 /\ scans[1].order # scans[2].order
    /\ HoldsDeletion("run.sh") /\ HoldsDeletion("deploy.py")
    /\ Len(scans[1].found) = 2 /\ Len(scans[2].found) = 2

\* The steps of the run that started a child process and waited for it.
ProcessSteps == {i \in Steps : trace[i].kind \in {"sandbox", "host"}}

\* Whether the child was started under `timeout`: run_sandboxed_git's are,
\* with TimeoutSecs; the processes started on the host are not.
Bounded(e) == e.kind = "sandbox" /\ TimeoutSecs > 0

\* C27: every process an acquisition starts is bounded by the timeout, so
\* that no run can wait for a child for ever.
C27_EveryProcessBounded ==
    Acquiring => \A i \in ProcessSteps : Bounded(trace[i])

\* The step that created the workspace directory of the run.
CreatedAt(i) == trace[i] = Ev("fs", "create_dir_all", repo_name)

\* C28: when the fetch stage starts the workspace directory of the
\* repository name exists and is empty; a workspace an earlier run left
\* under that name is removed and the directory created before anything is
\* asked or run in the sandbox, and before the run can end on the
\* --verify-checksum precondition.
C28_FreshWorkspaceAtFetch ==
    Acquiring /\ repo_name # "" =>
        /\ pc = "stage1" => workspace[repo_name] = EmptyDir
        /\ \E i \in Steps :
              /\ CreatedAt(i)
              /\ disk0.workspace[repo_name].state # "absent" =>
                    i > 1 /\ trace[i - 1] = Ev("fs", "remove_dir_all", repo_name)
              /\ \A j \in Steps :
                    trace[j].kind \in {"prompt", "sandbox"} => i < j
        /\ pc \in {"prompt_fetch", "stage1"}
           \/ outcome = "NoFingerprintOnRequiredVerify"
           => workspace[repo_name] = EmptyDir

C28_OldWorkspaceReplaced ==
    /\ Acquiring /\ pc = "stage1" /\ PromptedYes("fetch")
    /\ disk0.workspace[repo_name].state = "checkedout"
    /\ \E k \in 1..Len(disk0.installed_repos) :
          /\ disk0.installed_repos[k].name = repo_name
          /\ disk0.installed_repos[k].url # repo_url

\* The run came to the copy into the working directory.
ReachedMaterialization ==
    \/ pc \in {"prompt_copy", "copy"}
    \/ HasOp("prompt", "copy")
    \/ HasOp("host", "cp -r")

\* C29: a run that came to the materialization step ends complete, with
\* one record appended and the workspace kept; cp is run exactly if the
\* mode is not Paranoid or the user said yes, and the record's path is the
\* working-directory target exactly if cp was run and succeeded, the
\* repository in the workspace otherwise.
C29_OneRecordWorkspaceKept ==
    Acquiring /\ ReachedMaterialization =>
        /\ workspace[repo_name].state = "checkedout"
        /\ pc = "exited" =>
              /\ outcome = "Complete" /\ exit_code = 0
              /\ Count("registry", "add_repo") = 1
              /\ Len(installed_repos) = Len(disk0.installed_repos) + 1
              /\ LastRecord.workspace_path = Some(WorkspacePath(repo_name))
              /\ HasOp("host", "cp -r")
                    <=> args.trust_mode # "paranoid" \/ PromptedYes("copy")
              /\ LastRecord.path = CurrentDirTarget(repo_name)
                    <=> Has("host", "cp -r", "exit0")
              /\ ~Has("host", "cp -r", "exit0")
                    => LastRecord.path = RepoInWorkspace(repo_name)

C29_DeclinedCopyRecorded ==
    /\ Completed /\ Has("prompt", "copy", "no")
    /\ LastRecord.path = RepoInWorkspace(repo_name)
    /\ workspace[repo_name].state = "checkedout"

\* C30: a run cancelled at the verification-failure or the scan prompt has
\* removed the workspace directory as its last step; a run cancelled at the
\* pre-fetch prompt leaves the directory it created, empty.
C30_CancelCleansAfterFetchOnly ==
    Acquiring /\ pc = "exited" /\ outcome = "Cancelled" =>
        /\ Has("prompt", "verify", "no") \/ Has("prompt", "scan", "no") =>
              /\ workspace[repo_name] = NoDir
              /\ trace[Len(trace)] = Ev("fs", "remove_dir_all", repo_name)
        /\ Has("prompt", "fetch", "no") =>
              /\ workspace[repo_name] = EmptyDir
              /\ trace[Len(trace)] = Ev("prompt", "fetch", "no")
              /\ CreatedAt(Len(trace) - 1)

C30_CancelledAfterEmptyLeft ==
    /\ Acquiring /\ pc = "exited" /\ outcome = "Cancelled"
    /\ Has("prompt", "scan", "no")
    /\ disk0.workspace[repo_name] = EmptyDir
    /\ workspace[repo_name] = NoDir

====
